---- MODULE Spec2Model ----
\* Model of rbarry82/resurrect: the Resurrect re-dispatch scheduler
\* (src/resurrect.py) and the calls its example charm makes (src/ingress.py).
EXTENDS Integers, Sequences, FiniteSets, TLC

VARIABLES
    cfg,          \* the constructor's keyword arguments
    phase,        \* "new" | "constructed" | "failed" (ValueError raised)
    os_environ,   \* os.environ of the charm process
    stored_keys,  \* attributes present in the StoredState
    stored_env,   \* self._stored.env
    stored_pid,   \* self._stored.pid
    procs,        \* spawned processes, indexed by pid
    signals,      \* the pids os.kill has delivered a signal to
    sentinel,     \* the dispatch path has been touched by a check process
    last          \* the last call on the scheduler, with its pre-state

vars == <<cfg, phase, os_environ, stored_keys, stored_env, stored_pid,
          procs, signals, sentinel, last>>

----------------------------------------------------------------------------
\* Bounds

MaxPid == 2

----------------------------------------------------------------------------
\* Python values

\* Optional[T]: None is the empty tuple, a value v is <<v>>.
None == <<>>
Some(v) == <<v>>

juju_dispatch_path == "JUJU_DISPATCH_PATH"
operator_dispatch == "OPERATOR_DISPATCH"
juju_charm_dir == "JUJU_CHARM_DIR"
custom_env_var == "CUSTOM_ENV_VAR"

Keys == {juju_dispatch_path, operator_dispatch, juju_charm_dir, custom_env_var}

\* A Dict[str, str] over Keys: a key that is not in the dict maps to Absent.
Absent == "<absent>"
EmptyEnv == [k \in Keys |-> Absent]
Dict(pairs) == [k \in Keys |-> IF k \in DOMAIN pairs THEN pairs[k] ELSE Absent]
KeysOf(env) == {k \in Keys : env[k] # Absent}

\* dict.update(other)
DictUpdate(base, other) ==
    [k \in Keys |-> IF other[k] # Absent THEN other[k] ELSE base[k]]

\* d[key] = value
SetItem(env, key, value) == [env EXCEPT ![key] = value]

\* bool(x) of an Optional[Dict], an Optional[int] pid, an Optional[timedelta]
\* (given as its total number of seconds) and an Optional[Callable].
TruthyEnv(e) == e # None /\ KeysOf(e[1]) # {}
TruthyPid(p) == p # None /\ p[1] # 0
TruthyDelta(d) == d # None /\ d[1] # 0
TruthyCallable(c) == c # None

\* timedelta.seconds: the seconds field of the normalised (days, seconds,
\* microseconds) triple, 0 <= seconds < 86400.
SecondsField(total) == total % 86400

\* signal.SIGKILL, the default of stop's sig
SIGKILL == 9

----------------------------------------------------------------------------
\* Inputs

\* timedelta arguments, in seconds
Oneshots == {None, Some(5), Some(86405)}
Everys == {None, Some(30)}
CheckMethods == {None, Some("_check_endpoint")}
Configs ==
    [check_method : CheckMethods, oneshot : Oneshots, every : Everys,
     allow_empty_env : BOOLEAN]

OsEnvs ==
    { Dict([JUJU_CHARM_DIR |-> "/charm", JUJU_DISPATCH_PATH |-> "hooks/start"]),
      Dict([JUJU_CHARM_DIR |-> "/charm", JUJU_DISPATCH_PATH |-> "hooks/start",
            CUSTOM_ENV_VAR |-> "bar"]) }

Overrides == {None, Some(Dict([CUSTOM_ENV_VAR |-> "foo"]))}

EnvArgs ==
    { None,
      Some(EmptyEnv),
      Some(Dict([JUJU_DISPATCH_PATH |-> "hooks/remove",
                 OPERATOR_DISPATCH |-> "0", CUSTOM_ENV_VAR |-> "baz"])) }

Pids == 1..MaxPid
PidArgs == {None} \cup {Some(p) : p \in Pids}
\* SIGKILL and SIGTERM
Sigs == {SIGKILL, 15}

----------------------------------------------------------------------------
\* The record of a call

\* op and its arguments; result is "ok", "pid" (with the pid returned) or the
\* exception raised; caller_env is the caller's env mapping after the call;
\* spawn_env the environment of the process the call spawned; sent the
\* <<pid, sig>> the call handed to os.kill; log what it logged; pre_pid the
\* pid stored when stop was called.
NoCall ==
    [op |-> "none", result |-> "none", pid |-> None,
     given |-> FALSE, env_arg |-> None, caller_env |-> None,
     override |-> None, overwrite |-> FALSE, use_os_env |-> FALSE,
     pid_arg |-> None, sig |-> 0, pre_pid |-> None,
     spawn_env |-> None, sent |-> {}, log |-> {}]

----------------------------------------------------------------------------
\* Resurrect.__init__

\* The condition under which __init__ raises ValueError.
InitRaises(c) ==
    \/ ~TruthyCallable(c.check_method)
    \/ ~(TruthyDelta(c.oneshot) \/ TruthyDelta(c.every))
    \/ (TruthyDelta(c.oneshot) /\ TruthyDelta(c.every))

\* StoredState.set_default(env={}, pid=None): sets the attributes not yet
\* present.
set_default ==
    /\ stored_keys' = stored_keys \cup {"env", "pid"}
    /\ stored_env' = IF "env" \in stored_keys THEN stored_env ELSE EmptyEnv
    /\ stored_pid' = IF "pid" \in stored_keys THEN stored_pid ELSE None

Construct ==
    /\ phase = "new"
    /\ IF InitRaises(cfg)
       THEN /\ phase' = "failed"
            /\ last' = [NoCall EXCEPT !.op = "init", !.result = "ValueError"]
            /\ UNCHANGED <<stored_keys, stored_env, stored_pid>>
       ELSE /\ phase' = "constructed"
            /\ set_default
            /\ last' = [NoCall EXCEPT !.op = "init", !.result = "ok"]
    /\ UNCHANGED <<cfg, os_environ, procs, signals, sentinel>>

\* Resurrect.is_started: returns the stored pid itself.
is_started == stored_pid

\* The pids of the spawned processes that still exist for the OS.
Alive == {p \in 1..Len(procs) : procs[p].status # "gone"}

Call(op) == [NoCall EXCEPT !.op = op]

----------------------------------------------------------------------------
\* Resurrect.prime

PrimedEnv_Merging(override, use_os_env) ==
    LET ov == IF TruthyEnv(override) THEN override[1] ELSE EmptyEnv
        new_env == IF use_os_env THEN os_environ ELSE stored_env
    IN  DictUpdate(new_env, ov)

\* new_env = dict(os.environ) if use_os_env else {}; new_env.update(override)
PrimedEnv(override, use_os_env) ==
    LET ov == IF TruthyEnv(override) THEN override[1] ELSE EmptyEnv
        new_env == IF use_os_env THEN os_environ ELSE EmptyEnv
    IN  DictUpdate(new_env, ov)

StoredAfterPrime_Reset(override, use_os_env) ==
    [env |-> PrimedEnv(override, use_os_env), pid |-> None]

\* self._stored.env = new_env: the one attribute prime assigns
StoredAfterPrime(override, use_os_env) ==
    [env |-> PrimedEnv(override, use_os_env), pid |-> stored_pid]

PrimeLog(overwrite) ==
    (IF TruthyPid(is_started)
     THEN IF TruthyDelta(cfg.every) THEN {"warning: re-priming running"}
                                    ELSE {"debug: re-priming one-shot"}
     ELSE {})
    \cup
    (IF KeysOf(stored_env) # {} /\ ~overwrite
     THEN {"warning: already primed"} ELSE {})

prime(override, overwrite, use_os_env) ==
    /\ phase = "constructed"
    /\ stored_env' = StoredAfterPrime(override, use_os_env).env
    /\ stored_pid' = StoredAfterPrime(override, use_os_env).pid
    /\ last' = [Call("prime") EXCEPT
                   !.result = "ok", !.override = override,
                   !.overwrite = overwrite, !.use_os_env = use_os_env,
                   !.log = PrimeLog(overwrite)]
    /\ UNCHANGED <<cfg, phase, os_environ, stored_keys, procs, signals,
                   sentinel>>

----------------------------------------------------------------------------
\* Resurrect.start

HookPath == "hooks/resurrect"

\* execute_charm = f"{os.getenv('JUJU_CHARM_DIR')}/dispatch"
execute_charm ==
    <<IF os_environ[juju_charm_dir] = Absent THEN "None"
      ELSE os_environ[juju_charm_dir], "/dispatch">>

\* `if not env: env = self._stored.env`: TRUE when start goes on with the
\* stored mapping itself.
UsesStoredEnv(env_arg) == ~TruthyEnv(env_arg)

EffectiveEnv(env_arg) ==
    IF UsesStoredEnv(env_arg) THEN stored_env ELSE env_arg[1]

DispatchEnv_NoMarker(env) == SetItem(env, juju_dispatch_path, HookPath)

\* env[juju_dispatch_path] = "hooks/resurrect"; env[operator_dispatch] = "1"
DispatchEnv(env) ==
    SetItem(SetItem(env, juju_dispatch_path, HookPath), operator_dispatch, "1")

\* The branch of the if/elif/else that spawns.
Strategy ==
    IF TruthyCallable(cfg.check_method) THEN "check"
    ELSE IF TruthyDelta(cfg.every) THEN "every"
    ELSE IF TruthyDelta(cfg.oneshot) THEN "oneshot"
    ELSE "none"

\* What is handed to Process(...) or Popen(...).
Command(strategy) ==
    CASE strategy = "check" ->
           [program |-> "Process(_proc_runner)", seconds |-> 0,
            target |-> execute_charm, shell |-> FALSE]
      [] strategy = "every" ->
           [program |-> "watch -n", seconds |-> SecondsField(cfg.every[1]),
            target |-> execute_charm, shell |-> FALSE]
      [] strategy = "oneshot" ->
           [program |-> "sleep; dispatch",
            seconds |-> SecondsField(cfg.oneshot[1]),
            target |-> execute_charm, shell |-> TRUE]

FirstStatus_RunInParent(strategy) ==
    CASE strategy = "check" -> "returned"
      [] strategy = "every" -> "waiting"
      [] strategy = "oneshot" -> "done"

\* Process.start() and Popen() return with the child just started.
FirstStatus(strategy) ==
    CASE strategy = "check" -> "checking"
      [] strategy = "every" -> "waiting"
      [] strategy = "oneshot" -> "sleeping"

StartLog(env_arg) ==
    (IF TruthyPid(is_started)
        /\ (TruthyCallable(cfg.check_method) \/ TruthyDelta(cfg.every))
     THEN {"warning: already running"} ELSE {})
    \cup
    (IF UsesStoredEnv(env_arg) THEN {"debug: using stored env"} ELSE {})
    \cup
    (IF KeysOf(EffectiveEnv(env_arg)) = {} /\ ~cfg.allow_empty_env
     THEN {"warning: empty env"} ELSE {})

StoredPidAfterStart_Dropped(new_pid) == stored_pid

StoredPidAfterStart_KeepFirst(new_pid) ==
    IF stored_pid # None THEN stored_pid ELSE Some(new_pid)

\* self._stored.pid = proc.pid
StoredPidAfterStart(new_pid) == Some(new_pid)

\* given = FALSE is the call start(), which binds no env; spawn_ok = FALSE is
\* the OS refusing to create the process.
start(given, env_arg, spawn_ok) ==
    /\ phase = "constructed"
    /\ Len(procs) < MaxPid
    /\ LET call == [Call("start") EXCEPT !.given = given, !.env_arg = env_arg]
           env == DispatchEnv(EffectiveEnv(env_arg))
           new_pid == Len(procs) + 1
           \* the two item assignments write through the mapping in use
           written == [call EXCEPT
                          !.log = StartLog(env_arg),
                          !.caller_env = IF UsesStoredEnv(env_arg)
                                         THEN env_arg ELSE Some(env)]
       IN  IF ~given
           THEN /\ last' = [call EXCEPT !.result = "TypeError"]
                /\ UNCHANGED <<stored_env, stored_pid, procs>>
           ELSE /\ stored_env' = IF UsesStoredEnv(env_arg) THEN env
                                 ELSE stored_env
                /\ IF Strategy = "none"
                   THEN /\ last' = [written EXCEPT !.result = "RuntimeError"]
                        /\ UNCHANGED <<stored_pid, procs>>
                   ELSE IF ~spawn_ok
                   THEN /\ last' = [written EXCEPT !.result = "OSError"]
                        /\ UNCHANGED <<stored_pid, procs>>
                   ELSE /\ procs' = Append(procs,
                                       [strategy |-> Strategy,
                                        command |-> Command(Strategy),
                                        status |-> FirstStatus(Strategy)])
                        /\ stored_pid' = StoredPidAfterStart(new_pid)
                        /\ last' = [written EXCEPT
                                       !.result = "pid", !.pid = Some(new_pid),
                                       !.spawn_env = Some(env)]
    /\ UNCHANGED <<cfg, phase, os_environ, stored_keys, signals, sentinel>>

----------------------------------------------------------------------------
\* Resurrect.stop

Target_StoredFirst(pid_arg) == IF stored_pid # None THEN stored_pid ELSE pid_arg

\* pid = pid if pid is not None else self._stored.pid
Target(pid_arg) == IF pid_arg # None THEN pid_arg ELSE stored_pid

Kill_Group(pid) ==
    [p \in 1..Len(procs) |->
        [procs[p] EXCEPT !.status =
            IF @ \in {"done", "killed", "gone"} THEN @ ELSE "killed"]]

\* os.kill(pid, sig): the process takes the signal; a running one dies of it.
Kill(pid) ==
    [procs EXCEPT ![pid].status =
        IF @ \in {"done", "killed"} THEN @ ELSE "killed"]

StopOutcome_Silent(pid) ==
    IF pid = None THEN "ok"
    ELSE IF pid[1] \notin Alive THEN "ProcessLookupError"
    ELSE "ok"

\* How the call ends: NotStarted raised, os.kill raising because no process
\* has that pid, or the return after os.kill.
StopOutcome(pid) ==
    IF pid = None THEN "NotStarted"
    ELSE IF pid[1] \notin Alive THEN "ProcessLookupError"
    ELSE "ok"

\* self._stored.pid = None, the statement after os.kill
StoredPidAfterStop(outcome) == IF outcome = "ok" THEN None ELSE stored_pid

stop(pid_arg, sig) ==
    /\ phase = "constructed"
    /\ LET pid == Target(pid_arg)
           outcome == StopOutcome(pid)
           delivered == pid # None /\ outcome = "ok"
       IN  /\ procs' = IF delivered THEN Kill(pid[1]) ELSE procs
           /\ signals' = IF delivered THEN signals \cup {pid[1]} ELSE signals
           /\ stored_pid' = StoredPidAfterStop(outcome)
           /\ last' = [Call("stop") EXCEPT
                          !.pid_arg = pid_arg, !.sig = sig, !.result = outcome,
                          !.pre_pid = stored_pid,
                          !.sent = IF delivered THEN {<<pid[1], sig>>} ELSE {}]
    /\ UNCHANGED <<cfg, phase, os_environ, stored_keys, stored_env, sentinel>>

----------------------------------------------------------------------------
\* The spawned processes

\* Resurrect._proc_runner in the child (os.environ = env; check_function();
\* Path(dispatch_path).touch()), and the watch and sleep commands.
NextStatus(proc) ==
    CASE proc.status = "checking" -> "returned"
      [] proc.status = "returned" -> "done"
      [] proc.status = "sleeping" -> "done"
      [] proc.status = "waiting" -> "waiting"
      [] OTHER -> proc.status

Touches_BeforeCheck(proc) == proc.status = "checking"

\* Path(dispatch_path).touch(), the statement after check_function()
Touches(proc) == proc.status = "returned"

ChildStep(p) ==
    /\ p \in 1..Len(procs)
    /\ NextStatus(procs[p]) # procs[p].status
    /\ procs' = [procs EXCEPT ![p].status = NextStatus(procs[p])]
    /\ sentinel' = (sentinel \/ Touches(procs[p]))
    /\ UNCHANGED <<cfg, phase, os_environ, stored_keys, stored_env,
                   stored_pid, signals, last>>

\* A process that has exited or was killed is reaped: its pid no longer
\* names a process.
Reap(p) ==
    /\ p \in 1..Len(procs)
    /\ procs[p].status \in {"done", "killed"}
    /\ procs' = [procs EXCEPT ![p].status = "gone"]
    /\ UNCHANGED <<cfg, phase, os_environ, stored_keys, stored_env,
                   stored_pid, signals, sentinel, last>>

----------------------------------------------------------------------------
\* Specification

Init ==
    /\ cfg \in Configs
    /\ phase = "new"
    /\ os_environ \in OsEnvs
    /\ stored_keys = {}
    /\ stored_env = EmptyEnv
    /\ stored_pid = None
    /\ procs = <<>>
    /\ signals = {}
    /\ sentinel = FALSE
    /\ last = NoCall

Next ==
    \/ Construct
    \/ \E override \in Overrides, overwrite \in BOOLEAN, use_os_env \in BOOLEAN :
          prime(override, overwrite, use_os_env)
    \/ \E given \in BOOLEAN, env_arg \in EnvArgs, spawn_ok \in BOOLEAN :
          start(given, env_arg, spawn_ok)
    \/ \E pid_arg \in PidArgs, sig \in Sigs : stop(pid_arg, sig)
    \/ \E p \in Pids : ChildStep(p)
    \/ \E p \in Pids : Reap(p)

Spec == Init /\ [][Next]_vars

TypeOK ==
    /\ phase \in {"new", "constructed", "failed"}
    /\ stored_keys \subseteq {"env", "pid"}
    /\ Len(procs) <= MaxPid

----------------------------------------------------------------------------
\* Construction

Options == {"check_method", "oneshot", "every"}
OptionsSet(c) == {o \in Options : c[o] # None}

\* C1: construction succeeds if and only if exactly one of check_method,
\* oneshot and every is set; on success the stored state has the defaults
\* env = {} and pid = None, otherwise ValueError is raised.
C1_ConstructIffExactlyOne ==
    last.op = "init" =>
        IF Cardinality(OptionsSet(cfg)) = 1
        THEN /\ phase = "constructed"
             /\ last.result = "ok"
             /\ stored_keys = {"env", "pid"}
             /\ stored_env = EmptyEnv
             /\ stored_pid = None
        ELSE /\ phase = "failed"
             /\ last.result = "ValueError"

----------------------------------------------------------------------------
\* start and is_started

\* C2: after a start that returned a pid, is_started() is true and is the pid
\* that start returned, whatever calls came before.
C2_StartedAfterStart ==
    (last.op = "start" /\ last.result = "pid") =>
        /\ TruthyPid(is_started)
        /\ is_started = last.pid

\* A start that returned after an earlier start and a stop.
C2_Witness ==
    /\ last.op = "start"
    /\ last.result = "pid"
    /\ last.pid = Some(2)
    /\ signals = {1}

----------------------------------------------------------------------------
\* stop

\* C3: after a stop that resolved a target pid (explicit or stored), no pid
\* is stored and is_started() is false, also when the target process no
\* longer exists.
C3_StopAlwaysClears ==
    (last.op = "stop" /\ last.result # "NotStarted") =>
        /\ stored_pid = None
        /\ ~TruthyPid(is_started)

\* C4: stop() with no explicit pid while no pid is stored raises NotStarted,
\* sends no signal and leaves the stored env and pid as they were.
C4_StopNotStarted ==
    [][\A sig \in Sigs :
          (stored_pid = None /\ stop(None, sig)) =>
              /\ last'.result = "NotStarted"
              /\ last'.sent = {}
              /\ UNCHANGED <<stored_env, stored_pid, signals, procs>>]_vars

\* stop() raised NotStarted after an earlier start and stop.
C4_Witness ==
    /\ last.op = "stop"
    /\ last.pid_arg = None
    /\ last.result = "NotStarted"
    /\ stored_pid = None
    /\ signals # {}

----------------------------------------------------------------------------
\* The environment of the spawned process

\* The keys start leaves to the effective environment.
PayloadKeys == Keys \ {juju_dispatch_path, operator_dispatch}

\* base overlaid with override, override winning on the keys of both
Overlay(base, override) ==
    [k \in Keys |->
        IF override # None /\ override[1][k] # Absent THEN override[1][k]
        ELSE base[k]]

BaseEnv(use_os_env) == IF use_os_env THEN os_environ ELSE EmptyEnv

\* C5: prime(override) followed by start() with no explicit env spawns a
\* process whose environment agrees with the base environment overlaid with
\* override on every key but the dispatch-path and marker variables.
C5_PrimeThenStart ==
    [][\A given \in BOOLEAN :
          (last.op = "prime" /\ start(given, None, TRUE)) =>
              /\ last'.result = "pid"
              /\ last'.spawn_env # None
              /\ \A k \in PayloadKeys :
                    last'.spawn_env[1][k] =
                        Overlay(BaseEnv(last.use_os_env), last.override)[k]]_vars

\* C6: every process start spawns has JUJU_DISPATCH_PATH = "hooks/resurrect"
\* and OPERATOR_DISPATCH = "1" in its environment, whatever the effective
\* environment carried for the two variables.
C6_SpawnEnvDispatch ==
    last.spawn_env # None =>
        /\ last.spawn_env[1][juju_dispatch_path] = "hooks/resurrect"
        /\ last.spawn_env[1][operator_dispatch] = "1"

\* A spawn from an explicit env that carried other values for both variables.
C6_Witness ==
    /\ last.op = "start"
    /\ last.result = "pid"
    /\ last.spawn_env # None
    /\ last.env_arg # None
    /\ last.env_arg[1][operator_dispatch] = "0"
    /\ last.env_arg[1][juju_dispatch_path] = "hooks/remove"

\* C7: start spawns one process per call with the strategy of the
\* configuration: the check process for a check function, the watch wrapper
\* for a repeat interval, the sleeping shell for a one-shot delay; no
\* constructed scheduler raises the no-strategy error.
C7_StrategyOfConfig ==
    /\ \A p \in 1..Len(procs) :
          /\ cfg.check_method # None => procs[p].strategy = "check"
          /\ cfg.every # None =>
                /\ procs[p].strategy = "every"
                /\ procs[p].command.program = "watch -n"
          /\ cfg.oneshot # None =>
                /\ procs[p].strategy = "oneshot"
                /\ procs[p].command.program = "sleep; dispatch"
                /\ procs[p].command.shell
    /\ last.result # "RuntimeError"

\* C8: the effective environment of start is the explicit env whenever one
\* is given, the empty mapping included, and the stored env only when none is
\* given.
C8_ExplicitEnvWins ==
    (last.op = "start" /\ last.result = "pid" /\ last.env_arg # None) =>
        \A k \in PayloadKeys : last.spawn_env[1][k] = last.env_arg[1][k]

----------------------------------------------------------------------------
\* Re-priming and re-starting

C10_RestartLastWriteWins ==
    [][/\ \A env_arg \in EnvArgs :
             (stored_pid # None /\ start(TRUE, env_arg, TRUE)) =>
                 /\ last'.result = "pid"
                 /\ last'.sent = {}
                 /\ signals' = signals
                 /\ Len(procs') = Len(procs) + 1
                 /\ \A p \in 1..Len(procs) : procs'[p] = procs[p]
                 /\ stored_pid' = Some(Len(procs'))
                 /\ stored_pid' # stored_pid
       /\ \A sig \in Sigs :
             (last.op = "start" /\ last.result = "pid" /\ stop(None, sig)) =>
                 /\ last'.sent \subseteq {<<Len(procs), sig>>}
                 /\ signals' \subseteq signals \cup {Len(procs)}
                 /\ \A p \in 1..(Len(procs) - 1) : procs'[p] = procs[p]]_vars

\* A stop() that signalled the second process while the first, never
\* signalled, is still running.
C10_Witness ==
    /\ last.op = "stop"
    /\ last.pid_arg = None
    /\ last.sent # {}
    /\ signals = {2}
    /\ Len(procs) = 2
    /\ procs[1].status \in {"checking", "returned"}

----------------------------------------------------------------------------
\* What each call leaves alone

\* C11: start writes the dispatch-path and marker variables into the spawned
\* process's environment only: the stored env and the caller's explicit env
\* mapping are after start what they were before it.
C11_StartLeavesEnvs ==
    [][\A env_arg \in EnvArgs :
          start(TRUE, env_arg, TRUE) =>
              /\ stored_env' = stored_env
              /\ last'.caller_env = env_arg]_vars

\* C12: prime changes the stored env only: the stored pid and is_started()
\* are as before, no process is spawned and none signalled; stop never
\* changes the stored env.
C12_PrimeAndStopFrames ==
    [][/\ (/\ last'.op = "prime"
           /\ prime(last'.override, last'.overwrite, last'.use_os_env)) =>
                 /\ stored_pid' = stored_pid
                 /\ is_started' = is_started
                 /\ procs' = procs
                 /\ signals' = signals
                 /\ last'.sent = {}
                 /\ last'.spawn_env = None
       /\ (last'.op = "stop" /\ stop(last'.pid_arg, last'.sig)) =>
                 stored_env' = stored_env]_vars

\* A prime that changed the stored env of a started scheduler, and left the
\* pid.
C12_Witness ==
    /\ last.op = "prime"
    /\ "debug: re-priming one-shot" \in last.log
    /\ stored_pid = Some(1)
    /\ stored_env[custom_env_var] = "foo"
    /\ procs[1].status = "checking"

----------------------------------------------------------------------------
\* The spawned process

Running == {"checking", "returned", "waiting", "sleeping"}

\* C13: in the check strategy the dispatch path is touched only by a process
\* whose check function has returned: not while the check runs, and not by a
\* process that stop killed before its check returned.
C13_TouchAfterCheck ==
    [][/\ (sentinel' /\ ~sentinel) =>
             \E p \in 1..Len(procs) :
                /\ procs[p].strategy = "check"
                /\ procs[p].status = "returned"
                /\ procs'[p].status = "done"
       /\ \A p \in 1..Len(procs) :
             /\ procs[p].status = "checking" =>
                   procs'[p].status \in {"checking", "returned", "killed"}
             /\ procs[p].status \in {"killed", "gone"} =>
                   procs'[p].status \in {"killed", "gone"}]_vars

\* One process was killed while its check ran and the path is untouched;
\* and a later process touched it.
C13_Witness ==
    /\ Len(procs) = 2
    /\ procs[1].status = "killed"
    /\ procs[2].status = "done"
    /\ sentinel
    /\ signals = {1}

C15_CommandSeconds ==
    phase = "constructed" =>
        /\ cfg.every # None => Command("every").seconds = cfg.every[1]
        /\ cfg.oneshot # None => Command("oneshot").seconds = cfg.oneshot[1]

----------------------------------------------------------------------------
\* Which process stop signals

\* C16: a stop that returns has signalled one pid, with the signal given: the
\* explicit pid when one is given, the stored pid otherwise; with an explicit
\* pid that is not the stored one the stored process is not signalled, and
\* the stored pid is cleared all the same.
C16_StopSignalsTarget ==
    (last.op = "stop" /\ last.result = "ok") =>
        /\ last.sent =
              {<<IF last.pid_arg # None THEN last.pid_arg[1]
                 ELSE last.pre_pid[1], last.sig>>}
        /\ last.sig \in Sigs
        /\ stored_pid = None

\* stop(1) returned while pid 2 was stored: process 2 runs on, never
\* signalled, and no pid is stored.
C16_Witness ==
    /\ last.op = "stop"
    /\ last.result = "ok"
    /\ last.pid_arg = Some(1)
    /\ last.pre_pid = Some(2)
    /\ stored_pid = None
    /\ 2 \notin signals
    /\ procs[2].status \in Running

\* C17 as stated: whenever no pid is stored, no process spawned by start is
\* running and unsignalled.
C17_NoUntrackedProcess ==
    stored_pid = None =>
        \A p \in 1..Len(procs) : procs[p].status \in Running => p \in signals

\* C17, amended: a stored pid is the pid of the process spawned last, and a
\* stop() that returns has signalled that process and left every other one
\* as it was.
C17_TracksLatestOnly ==
    [][/\ stored_pid' # None => stored_pid' = Some(Len(procs'))
       /\ (/\ last'.op = "stop"
           /\ last'.pid_arg = None
           /\ last'.result = "ok"
           /\ stop(None, last'.sig)) =>
              /\ last'.sent = {<<Len(procs), last'.sig>>}
              /\ stored_pid = Some(Len(procs))
              /\ \A p \in 1..(Len(procs) - 1) : procs'[p] = procs[p]]_vars

\* stop() killed the second process and cleared the pid; the first, replaced
\* by the re-start, is still checking.
C17_Witness ==
    /\ last.op = "stop"
    /\ last.pid_arg = None
    /\ last.result = "ok"
    /\ last.pre_pid = Some(2)
    /\ stored_pid = None
    /\ procs[1].status = "checking"
    /\ procs[2].status = "killed"
    /\ 1 \notin signals

----------------------------------------------------------------------------
\* Spawn failure

\* C18: when the OS refuses to create the process start raises the platform
\* error, spawns nothing, and leaves the stored pid and the stored env as
\* they were.
C18_SpawnFailureKeepsState ==
    [][(/\ last'.op = "start"
        /\ last'.given
        /\ start(TRUE, last'.env_arg, FALSE)) =>
              /\ last'.result = "OSError"
              /\ procs' = procs
              /\ stored_pid' = stored_pid
              /\ stored_env' = stored_env]_vars

====
